---- MODULE Spec2Model ----
(***************************************************************************)
(* Model of blitz-croco-words: the slide-text extractor and the spelling   *)
(* helper (helpers.py), the archive command (main.py), and the word store, *)
(* word selector, accounts, sessions and store handles of the web          *)
(* application (server.py).                                                *)
(*                                                                         *)
(* A text is a sequence of Unicode code points (naturals), so that the     *)
(* character tests of the code (' ' in text, the letter classes of the     *)
(* cleaning regex, str.strip, str.split, sorted) are computed on the       *)
(* characters themselves.                                                  *)
(***************************************************************************)
EXTENDS Integers, Sequences, FiniteSets, TLC

VARIABLES
    deck,       \* extractor: the presentation handed to get_words_form_file
    xpc,        \* extractor: "call" before the call, "done" after it
    result,     \* extractor: the list get_words_form_file returned
    words,      \* table words: set of rows [id, word, created_at]
    usage,      \* table user_word_usage: set of rows [user_id, word_id, last_used_at]
    clock,      \* the wall clock read by utc_now()
    last,       \* the last completed request: its inputs, outcome and pre-state
    prev,       \* the completed request before `last`
    sel,        \* in-flight requests and select_words_for_user calls, one per worker
    users,      \* table users: set of rows [id, username, password, is_admin]
    sessions,   \* table sessions: set of rows [token, user_id, expires_at]
    seq,        \* AUTOINCREMENT counter of users and the session tokens issued
    handles,    \* store handles: the open connections and the request owning each
    call,       \* a command-line or helper call: its inputs, position and effects
    audit,      \* history: the tokens login issued (with issue time) and those logged out
    client      \* a browser: its cookie jar and the URL it is about to request

vars == <<deck, xpc, result, words, usage, clock, last, prev, sel,
          users, sessions, seq, handles, call, audit, client>>

-----------------------------------------------------------------------------
(* Bounds of the model.                                                    *)

MaxShapes == 2      \* shapes (and slides) of a deck
MaxWords == 2       \* rows of the words table
MaxClock == 1       \* clock ticks
MaxLimit == 3       \* the count n asked of a selection
MaxVocab == 3       \* words of the vocabulary selections draw from
MaxSelects == 2     \* selections served in a row
MaxExtracted == 2   \* texts extracted from the files of one upload
MaxInsert == 2      \* words handed to one insert_words call

-----------------------------------------------------------------------------
(* Texts.                                                                  *)

\* str.isspace(): the characters str.strip() and str.split() treat as whitespace
IsSpace(c) ==
    \/ c \in 9..13
    \/ c \in 28..32
    \/ c \in {133, 160, 5760, 8232, 8233, 8239, 8287, 12288}
    \/ c \in 8192..8202

RECURSIVE LStrip(_)
LStrip(t) ==
    IF t = <<>> THEN <<>>
    ELSE IF IsSpace(Head(t)) THEN LStrip(Tail(t))
    ELSE t

RECURSIVE RStrip(_)
RStrip(t) ==
    IF t = <<>> THEN <<>>
    ELSE IF IsSpace(t[Len(t)]) THEN RStrip(SubSeq(t, 1, Len(t) - 1))
    ELSE t

\* str.strip()
Strip(t) == RStrip(LStrip(t))

\* `c in text` for a single character c
HasChar(t, c) == \E i \in 1..Len(t) : t[i] = c

\* `pat in text` for a string pat
Contains(t, pat) ==
    \E i \in 1..(Len(t) - Len(pat) + 1) : SubSeq(t, i, i + Len(pat) - 1) = pat

\* the reserved marker token, in code points
MARKER == <<1057, 1059, 1055, 1045, 1056, 1050, 1056, 1054, 1050, 1054>>

-----------------------------------------------------------------------------
(* helpers.py: the text extractor.                                         *)

is_not_valid_no_colon(text) ==
    \/ HasChar(text, 32)
    \/ HasChar(text, 45)
    \/ Contains(text, MARKER)

is_not_valid(text) ==
    \/ HasChar(text, 32)
    \/ HasChar(text, 45)
    \/ HasChar(text, 58)
    \/ Contains(text, MARKER)

\* the inner loop of get_words_form_file over the shapes of one slide
RECURSIVE words_of_shapes(_)
words_of_shapes(shapes) ==
    IF shapes = <<>> THEN <<>>
    ELSE LET shape == Head(shapes) IN
         (IF ~shape.has_text_frame THEN <<>>
          ELSE IF is_not_valid(shape.text) THEN <<>>
          ELSE <<Strip(shape.text)>>) \o words_of_shapes(Tail(shapes))

\* the outer loop of get_words_form_file over the slides
RECURSIVE get_words_form_file(_)
get_words_form_file(slides) ==
    IF slides = <<>> THEN <<>>
    ELSE words_of_shapes(Head(slides)) \o get_words_form_file(Tail(slides))

-----------------------------------------------------------------------------
(* server.py / helpers.py: cleaning, spell checking, normalisation.        *)

\* the characters the regex [^A-Za-zА-Яа-яЁё]+ leaves in place
IsLetter(c) ==
    \/ c \in 65..90
    \/ c \in 97..122
    \/ c \in 1040..1071
    \/ c \in 1072..1103
    \/ c = 1025
    \/ c = 1105

\* re.sub(r"[^A-Za-zА-Яа-яЁё]+", "", word).strip()
clean_word(word) == Strip(SelectSeq(word, IsLetter))

\* sep.join(texts)
RECURSIVE Join(_, _)
Join(texts, sep) ==
    IF texts = <<>> THEN <<>>
    ELSE IF Len(texts) = 1 THEN texts[1]
    ELSE texts[1] \o sep \o Join(Tail(texts), sep)

\* the first whitespace-free run of a text that starts with a non-space
RECURSIVE FirstToken(_)
FirstToken(t) ==
    IF t = <<>> \/ IsSpace(Head(t)) THEN <<>>
    ELSE <<Head(t)>> \o FirstToken(Tail(t))

\* str.split(): the maximal whitespace-free runs, in order
RECURSIVE Split(_)
Split(t) ==
    LET u == LStrip(t) IN
    IF u = <<>> THEN <<>>
    ELSE LET tok == FirstToken(u)
         IN  <<tok>> \o Split(SubSeq(u, Len(tok) + 1, Len(u)))

\* str.__lt__: code point order, a proper prefix first
RECURSIVE TextLess(_, _)
TextLess(a, b) ==
    IF b = <<>> THEN FALSE
    ELSE IF a = <<>> THEN TRUE
    ELSE IF Head(a) # Head(b) THEN Head(a) < Head(b)
    ELSE TextLess(Tail(a), Tail(b))

\* sorted(S) for a set of texts
RECURSIVE SortTexts(_)
SortTexts(S) ==
    IF S = {} THEN <<>>
    ELSE LET m == CHOOSE x \in S : \A y \in S \ {x} : TextLess(x, y)
         IN  <<m>> \o SortTexts(S \ {m})

Range(f) == {f[i] : i \in DOMAIN f}

\* what the spelling service may answer to a batch: the batch itself, or one
\* of a few answers of its own: "a b!" (a token split in two, punctuation
\* attached), "" and "?!" (nothing usable)
SpellerAnswers(batch) ==
    {batch, <<97, 32, 98, 33>>, <<>>, <<63, 33>>}

\* check_spelling(words), the service answering `answer`
check_spelling(ws, answer) ==
    IF ws = <<>> THEN <<>> ELSE Split(answer)

speller_calls_always(ws) == <<Join(ws, <<32>>)>>

speller_calls_per_word(ws) == ws

\* check_spelling(words): the texts it hands to YandexSpeller().spelled, in
\* order; none for an empty list, ' '.join(words) otherwise
speller_calls(ws) ==
    IF ws = <<>> THEN <<>> ELSE <<Join(ws, <<32>>)>>

\* the set comprehension {clean_word(w) for w in ws if clean_word(w)}, sorted
CleanSorted(ws) ==
    SortTexts({clean_word(w) : w \in {x \in Range(ws) : clean_word(x) # <<>>}})

normalize_words_unchecked(ws, answer) ==
    SortTexts(Range(check_spelling(CleanSorted(ws), answer)))

\* normalize_words(words), the service answering `answer`
normalize_words(ws, answer) ==
    CleanSorted(check_spelling(CleanSorted(ws), answer))

-----------------------------------------------------------------------------
(* server.py: the words table.                                             *)

WordRow(id, word, created_at) == [id |-> id, word |-> word, created_at |-> created_at]

WordTexts(tbl) == {r.word : r \in tbl}
WordIds(tbl) == {r.id : r \in tbl}

\* INTEGER PRIMARY KEY AUTOINCREMENT: one more than the largest id handed out
\* (no row of words is ever deleted)
NextId(tbl) ==
    IF tbl = {} THEN 1
    ELSE (CHOOSE i \in WordIds(tbl) : \A j \in WordIds(tbl) : j <= i) + 1

insert_or_replace(tbl, word, now) ==
    [words |-> {r \in tbl : r.word # word} \cup {WordRow(NextId(tbl), word, now)},
     rowcount |-> 1]

\* INSERT OR IGNORE INTO words (word, created_at) VALUES (?, ?), word UNIQUE
insert_or_ignore(tbl, word, now) ==
    IF word \in WordTexts(tbl)
    THEN [words |-> tbl, rowcount |-> 0]
    ELSE [words |-> tbl \cup {WordRow(NextId(tbl), word, now)}, rowcount |-> 1]

\* the loop of insert_words over the remaining words
RECURSIVE insert_loop(_, _, _, _)
insert_loop(tbl, ws, now, inserted) ==
    IF ws = <<>> THEN [words |-> tbl, inserted |-> inserted]
    ELSE LET r == insert_or_ignore(tbl, Head(ws), now)
         IN  insert_loop(r.words, Tail(ws), now,
                         IF r.rowcount = 1 THEN inserted + 1 ELSE inserted)

\* insert_words(conn, words) at time `now`
insert_words(tbl, ws, now) == insert_loop(tbl, ws, now, 0)

update_word_unchecked(tbl, word_id, word) ==
    [error |-> FALSE,
     words |-> {IF r.id = word_id THEN WordRow(r.id, word, r.created_at) ELSE r
                : r \in tbl}]

\* update_word(conn, word_id, word): UPDATE words SET word = ? WHERE id = ?;
\* the UNIQUE constraint on word raises sqlite3.IntegrityError
update_word(tbl, word_id, word) ==
    IF /\ \E r \in tbl : r.id = word_id
       /\ \E r \in tbl : r.id # word_id /\ r.word = word
    THEN [error |-> TRUE, words |-> tbl]
    ELSE [error |-> FALSE,
          words |-> {IF r.id = word_id THEN WordRow(r.id, word, r.created_at) ELSE r
                     : r \in tbl}]

\* process_uploads(conn, uploads) at time `now`: `extracted` is the list the
\* uploads' files yield, `answer` what the spelling service answers
process_uploads(tbl, extracted, answer, now) ==
    LET stripped == {Strip(w) : w \in Range(extracted)}
        unique_extracted == SortTexts({w \in stripped : w # <<>>})
        checked == normalize_words(unique_extracted, answer)
        ins == IF checked # <<>> THEN insert_words(tbl, checked, now)
               ELSE [words |-> tbl, inserted |-> 0]
    IN  [words |-> ins.words,
         requests |-> speller_calls(CleanSorted(unique_extracted)),
         extracted |-> Len(extracted),
         unique_extracted |-> Len(unique_extracted),
         checked_unique |-> Len(checked),
         inserted |-> ins.inserted]

\* the batch process_uploads sends to the spelling service (empty: no call)
upload_batch(extracted) ==
    Join(CleanSorted(SortTexts({Strip(w) : w \in Range(extracted)} \ {<<>>})), <<32>>)

\* edit_word(word_id, word): the redirect it answers with, and the table after
edit_word(tbl, word_id, word, answer) ==
    LET cleaned == clean_word(word)
        checked_words == check_spelling(<<cleaned>>, answer)
        checked == IF checked_words # <<>> THEN clean_word(checked_words[1]) ELSE <<>>
        upd == update_word(tbl, word_id, checked)
    IN  IF cleaned = <<>> THEN [outcome |-> "empty", words |-> tbl]
        ELSE IF checked = <<>> THEN [outcome |-> "invalid", words |-> tbl]
        ELSE IF upd.error THEN [outcome |-> "conflict", words |-> tbl]
        ELSE [outcome |-> "updated", words |-> upd.words]

-----------------------------------------------------------------------------
(* server.py: the user_word_usage table and the word selector.             *)

UsageRow(user_id, word_id, last_used_at) ==
    [user_id |-> user_id, word_id |-> word_id, last_used_at |-> last_used_at]

upsert_usage_insert_only(tbl, user_id, word_id, now) ==
    tbl \cup {UsageRow(user_id, word_id, now)}

\* INSERT INTO user_word_usage ... ON CONFLICT(user_id, word_id)
\* DO UPDATE SET last_used_at = excluded.last_used_at
upsert_usage(tbl, user_id, word_id, now) ==
    IF \E r \in tbl : r.user_id = user_id /\ r.word_id = word_id
    THEN {IF r.user_id = user_id /\ r.word_id = word_id
          THEN UsageRow(user_id, word_id, now) ELSE r : r \in tbl}
    ELSE tbl \cup {UsageRow(user_id, word_id, now)}

\* conn.executemany over [(user_id, row["id"], now) for row in rows]
RECURSIVE upsert_many(_, _, _, _)
upsert_many(tbl, user_id, rows, now) ==
    IF rows = <<>> THEN tbl
    ELSE upsert_many(upsert_usage(tbl, user_id, Head(rows).id, now),
                     user_id, Tail(rows), now)

Min(a, b) == IF a <= b THEN a ELSE b
Max(a, b) == IF a >= b THEN a ELSE b

random_rows_with_repeats(tbl, limit) ==
    IF tbl = {} THEN {<<>>} ELSE [1..limit -> tbl]

\* SELECT w.id, w.word FROM words AS w ORDER BY RANDOM() LIMIT ?: the lists
\* the query may return, any min(limit, count) rows in any order
random_rows(tbl, limit) ==
    {rows \in [1..Min(limit, Cardinality(tbl)) -> tbl] :
        \A i, j \in DOMAIN rows : i # j => rows[i] # rows[j]}

\* select_words_for_user(conn, user_id, limit), the query returning `rows`
\* and utc_now() reading `now`
select_words_for_user(utbl, user_id, rows, now) ==
    IF rows = <<>> THEN [usage |-> utbl, result |-> <<>>]
    ELSE [usage |-> upsert_many(utbl, user_id, rows, now),
          result |-> [i \in 1..Len(rows) |-> rows[i].word]]

-----------------------------------------------------------------------------
(* The extractor applied to bounded decks.                                 *)

SeqsUpTo(S, n) == UNION {[1..k -> S] : k \in 0..n}

Shape(text, frame) == [text |-> text, has_text_frame |-> frame]

\* sample shapes: "a\n", "a b", "a-b", "a:b", "x" + marker, "b", "" and a
\* picture (no text frame) whose text attribute would read "c"
ShapePool ==
    { Shape(<<97, 10>>, TRUE),
      Shape(<<97, 32, 98>>, TRUE),
      Shape(<<97, 45, 98>>, TRUE),
      Shape(<<97, 58, 98>>, TRUE),
      Shape(<<120>> \o MARKER, TRUE),
      Shape(<<98>>, TRUE),
      Shape(<<>>, TRUE),
      Shape(<<99>>, FALSE) }

\* decks of at most `slides` slides holding at most `shapes` shapes in all
RECURSIVE Decks(_, _)
Decks(shapes, slides) ==
    IF slides = 0 THEN {<<>>}
    ELSE {<<>>} \cup
         UNION { { <<s>> \o d : d \in Decks(shapes - Len(s), slides - 1) }
                 : s \in SeqsUpTo(ShapePool, shapes) }

NoRequest == [op |-> "none"]

StoreIdle ==
    /\ words = {}
    /\ usage = {}
    /\ clock = 0
    /\ last = NoRequest
    /\ prev = NoRequest
    /\ sel = <<>>

NoCall == [fn |-> "none"]

NoAudit == [issued |-> {}, logged_out |-> {}]

NoClient == [at |-> "closed"]

AccountsIdle ==
    /\ users = {}
    /\ sessions = {}
    /\ seq = [users |-> 0, sessions |-> 0]
    /\ handles = {}
    /\ audit = NoAudit
    /\ client = NoClient
    /\ call = NoCall

InitExtract ==
    /\ deck \in Decks(MaxShapes, MaxShapes)
    /\ xpc = "call"
    /\ result = <<>>
    /\ StoreIdle
    /\ AccountsIdle

\* get_words_form_file(file), the presentation of `file` being `deck`
Extract ==
    /\ xpc = "call"
    /\ result' = get_words_form_file(deck)
    /\ xpc' = "done"
    /\ UNCHANGED <<audit, client, users, sessions, seq, handles, call, deck, words, usage, clock, last, prev, sel>>

NextExtract == Extract

SpecExtract == InitExtract /\ [][NextExtract]_vars

-----------------------------------------------------------------------------
(* C1.                                                                     *)

RECURSIVE Flatten(_)
Flatten(slides) ==
    IF slides = <<>> THEN <<>> ELSE Head(slides) \o Flatten(Tail(slides))

\* a shape that the claim lets through: a text frame, and a raw text with no
\* space, no hyphen, no colon and no occurrence of the marker
Qualifies(shape) ==
    /\ shape.has_text_frame
    /\ \A i \in 1..Len(shape.text) : shape.text[i] \notin {32, 45, 58}
    /\ \A i \in 1..Len(shape.text) :
           \E j \in 1..Len(MARKER) :
               i + j - 1 > Len(shape.text) \/ shape.text[i + j - 1] # MARKER[j]

QualifyingShapes(slides) == SelectSeq(Flatten(slides), Qualifies)

\* C1: get_words_form_file returns, in slide order then shape order, the
\* stripped texts of exactly the qualifying shapes; the stripped text has no
\* whitespace at either end and is the raw text less its surrounding whitespace;
\* a deck with no qualifying shape yields the empty list.
C1_ExtractExact ==
    xpc = "done" =>
        LET q == QualifyingShapes(deck) IN
        /\ Len(result) = Len(q)
        /\ \A i \in 1..Len(q) :
               LET raw == q[i].text
                   out == result[i]
               IN  /\ \E a \in 0..Len(raw) : \E b \in 0..(Len(raw) - a) :
                          /\ a + Len(out) + b = Len(raw)
                          /\ out = SubSeq(raw, a + 1, a + Len(out))
                          /\ \A k \in 1..a : IsSpace(raw[k])
                          /\ \A k \in (Len(raw) - b + 1)..Len(raw) : IsSpace(raw[k])
                   /\ out # <<>> => ~IsSpace(out[1]) /\ ~IsSpace(out[Len(out)])
        /\ (q = <<>> => result = <<>>)

\* a deck mixing rejected and accepted shapes on two slides has been extracted
C1_Witness ==
    /\ xpc = "done"
    /\ Len(deck) = 2
    /\ Len(Flatten(deck)) = 2
    /\ Len(result) = 1
    /\ \E i \in 1..Len(Flatten(deck)) : HasChar(Flatten(deck)[i].text, 58)
    /\ \E i \in 1..Len(Flatten(deck)) :
           /\ Qualifies(Flatten(deck)[i])
           /\ Strip(Flatten(deck)[i].text) # Flatten(deck)[i].text

-----------------------------------------------------------------------------
(* insert_words applied to bounded word lists.                             *)

ExtractorIdle ==
    /\ deck = <<>>
    /\ xpc = "off"
    /\ result = <<>>

\* texts handed to insert_words: "a", "b", "A"
WordPool == {<<97>>, <<98>>, <<65>>}

InitInsert ==
    /\ ExtractorIdle
    /\ AccountsIdle
    /\ StoreIdle

\* insert_words(conn, ws), utc_now() reading `clock`
InsertWords ==
    /\ \E ws \in SeqsUpTo(WordPool, MaxInsert) :
       \E r \in {insert_words(words, ws, clock)} :
          /\ words' = r.words
          /\ last' = [op |-> "insert", ws |-> ws, now |-> clock,
                      returned |-> r.inserted, words_before |-> words]
          /\ prev' = [op |-> last.op, ws |-> IF last.op = "insert" THEN last.ws ELSE <<>>]
    /\ UNCHANGED <<audit, client, users, sessions, seq, handles, call, deck, xpc, result, usage, clock, sel>>

\* time passes
Tick ==
    /\ clock < MaxClock
    /\ clock' = clock + 1
    /\ UNCHANGED <<audit, client, users, sessions, seq, handles, call, deck, xpc, result, words, usage, last, prev, sel>>

NextInsert == InsertWords \/ Tick

SpecInsert == InitInsert /\ [][NextInsert]_vars

-----------------------------------------------------------------------------
(* The word store under uploads and edits.                                 *)

\* texts a deck or an edit form may carry: "a", "A", "b1", "é"
RawPool == {<<97>>, <<65>>, <<98, 49>>, <<233>>}

Init ==
    /\ ExtractorIdle
    /\ AccountsIdle
    /\ StoreIdle

\* POST /upload and POST /api/upload
Upload ==
    /\ \E extracted \in SeqsUpTo(RawPool, MaxExtracted) :
       \E answer \in SpellerAnswers(upload_batch(extracted)) :
       \E r \in {process_uploads(words, extracted, answer, clock)} :
          /\ Cardinality(r.words) <= MaxWords
          /\ words' = r.words
          /\ last' = [op |-> "upload", extracted |-> extracted, answer |-> answer,
                      inserted |-> r.inserted, checked_unique |-> r.checked_unique,
                      requests |-> r.requests, words_before |-> words]
    /\ UNCHANGED <<audit, client, users, sessions, seq, handles, call, deck, xpc, result, usage, clock, prev, sel>>

\* POST /words/edit
EditWord ==
    /\ \E word_id \in 1..(MaxWords + 1) :
       \E word \in RawPool :
       \E answer \in SpellerAnswers(clean_word(word)) :
       \E r \in {edit_word(words, word_id, word, answer)} :
          /\ words' = r.words
          /\ last' = [op |-> "edit", word_id |-> word_id, word |-> word,
                      answer |-> answer, outcome |-> r.outcome,
                      words_before |-> words]
    /\ UNCHANGED <<audit, client, users, sessions, seq, handles, call, deck, xpc, result, usage, clock, prev, sel>>

Next == Upload \/ EditWord

Spec == Init /\ [][Next]_vars

-----------------------------------------------------------------------------
(* C6.                                                                     *)

\* C6: insert_words returns exactly the growth of the row count, which is the
\* number of distinct texts of its argument not stored before; every row
\* stored before is still there with its id, text and creation time; no two
\* rows share a text; and a call repeated right after itself returns 0.
C6_InsertExact ==
    last.op = "insert" =>
        /\ last.returned = Cardinality(words) - Cardinality(last.words_before)
        /\ last.returned =
               Cardinality(Range(last.ws) \ {r.word : r \in last.words_before})
        /\ last.words_before \subseteq words
        /\ \A r1, r2 \in words : (r1.word = r2.word \/ r1.id = r2.id) => r1 = r2
        /\ (prev.op = "insert" /\ prev.ws = last.ws => last.returned = 0)

\* a list naming one new word twice was inserted into a non-empty table
C6_Witness ==
    /\ last.op = "insert"
    /\ last.words_before # {}
    /\ \E i, j \in 1..Len(last.ws) : i # j /\ last.ws[i] = last.ws[j]
    /\ last.returned = 1

-----------------------------------------------------------------------------
(* C7 to C10.                                                              *)

\* the text an edit asks to store: the cleaned first token of the answer of
\* the spelling service (empty when there is none)
EditedText(l) ==
    LET tokens == Split(l.answer)
    IN  IF tokens = <<>> THEN <<>> ELSE SelectSeq(tokens[1], IsLetter)

\* the edit names a text that survives cleaning and spell checking
EditHasText(l) == SelectSeq(l.word, IsLetter) # <<>> /\ EditedText(l) # <<>>

EditCollides(l) ==
    /\ l.op = "edit"
    /\ EditHasText(l)
    /\ \E e \in l.words_before : e.id = l.word_id
    /\ \E o \in l.words_before : o.id # l.word_id /\ o.word = EditedText(l)

\* C7: an edit of an existing word whose cleaned, spell-checked text is the
\* text of another row reports Conflict and leaves the table as it was.
C7_EditConflict ==
    EditCollides(last) => last.outcome = "conflict" /\ words = last.words_before

\* an edit collided with another row
C7_Witness ==
    /\ EditCollides(last)
    /\ Cardinality(words) >= 2
    /\ last.outcome = "conflict"

\* C8 (as claimed): an edit of an id that is not in the table is reported as
\* NotFound and changes nothing, and no edit reports success unless a row
\* with that id was there to update.
C8_EditMissingIdNotFound ==
    last.op = "edit" =>
        /\ (EditHasText(last) /\ \A e \in last.words_before : e.id # last.word_id)
               => (last.outcome = "not_found" /\ words = last.words_before)
        /\ last.outcome = "updated"
               => \E e \in last.words_before : e.id = last.word_id

\* C9: every stored word is non-empty and made of Latin and Cyrillic letters only
C9_StoredWordsAlphabetic ==
    \A r \in words :
        /\ r.word # <<>>
        /\ \A i \in 1..Len(r.word) :
               r.word[i] \in (65..90) \cup (97..122) \cup (1040..1103) \cup {1025, 1105}

\* an upload whose texts and whose spelling answer both carried non-letters
\* has inserted words
C9_Witness ==
    /\ last.op = "upload"
    /\ last.inserted >= 1
    /\ \E i \in 1..Len(last.extracted) :
           \E k \in 1..Len(last.extracted[i]) : ~IsLetter(last.extracted[i][k])
    /\ \E k \in 1..Len(last.answer) : last.answer[k] = 33

\* lower case of a Latin or Cyrillic capital, other characters as they are
LowerChar(c) ==
    IF c \in 65..90 \/ c \in 1040..1071 THEN c + 32
    ELSE IF c = 1025 THEN 1105
    ELSE c

LowerText(t) == [i \in 1..Len(t) |-> LowerChar(t[i])]

\* C10 (as claimed): the table never holds two words that differ only in case
C10_NoCaseDuplicates ==
    \A r1, r2 \in words : LowerText(r1.word) = LowerText(r2.word) => r1 = r2

-----------------------------------------------------------------------------
(* Selections served one after the other.                                  *)

\* account ids
Users == {1, 2}

\* a vocabulary of k words "a", "b", ... as an upload at time 0 leaves it
Vocabulary(k) == insert_words({}, [i \in 1..k |-> <<96 + i>>], 0).words

InitSelect ==
    /\ ExtractorIdle
    /\ AccountsIdle
    /\ words \in {Vocabulary(k) : k \in 0..MaxVocab}
    /\ usage = {}
    /\ clock = 0
    /\ last = NoRequest
    /\ prev = NoRequest
    /\ sel = <<>>

\* GET /words.txt and GET /api/words, each request at a later time
SelectWords ==
    /\ clock < MaxSelects
    /\ \E user_id \in Users :
       \E limit \in 1..MaxLimit :
       \E rows \in random_rows(words, limit) :
       \E r \in {select_words_for_user(usage, user_id, rows, clock)} :
          /\ usage' = r.usage
          /\ last' = [op |-> "select", user_id |-> user_id, limit |-> limit,
                      result |-> r.result, now |-> clock, usage_before |-> usage]
          /\ prev' = IF last.op = "select"
                     THEN [op |-> "select", user_id |-> last.user_id,
                           limit |-> last.limit, result |-> last.result]
                     ELSE NoRequest
    /\ clock' = clock + 1
    /\ UNCHANGED <<audit, client, users, sessions, seq, handles, call, deck, xpc, result, words, sel>>

NextSelect == SelectWords

SpecSelect == InitSelect /\ [][NextSelect]_vars

-----------------------------------------------------------------------------
(* C2, C3, C5.                                                             *)

Used(utbl, user_id, w) ==
    \E u \in utbl : u.user_id = user_id /\ u.word_id = w.id

LastUsed(utbl, user_id, w) ==
    (CHOOSE u \in utbl : u.user_id = user_id /\ u.word_id = w.id).last_used_at

\* w1 ranks before w2 for the user: never used before used, then the older
\* last use, then the alphabet
RanksBefore(utbl, user_id, w1, w2) ==
    \/ ~Used(utbl, user_id, w1) /\ Used(utbl, user_id, w2)
    \/ /\ ~Used(utbl, user_id, w1)
       /\ ~Used(utbl, user_id, w2)
       /\ TextLess(w1.word, w2.word)
    \/ /\ Used(utbl, user_id, w1)
       /\ Used(utbl, user_id, w2)
       /\ \/ LastUsed(utbl, user_id, w1) < LastUsed(utbl, user_id, w2)
          \/ /\ LastUsed(utbl, user_id, w1) = LastUsed(utbl, user_id, w2)
             /\ TextLess(w1.word, w2.word)

\* C2 (as claimed): the selection is the first n words of the vocabulary in
\* least-recently-used order, so no returned word was used by the user while a
\* word left out was never used by them.
C2_SelectLeastRecentlyUsed ==
    last.op = "select" =>
        /\ Len(last.result) = Min(last.limit, Cardinality(words))
        /\ \A i \in 1..Len(last.result) :
               \E w \in words :
                   /\ w.word = last.result[i]
                   /\ Cardinality({v \in words :
                          RanksBefore(last.usage_before, last.user_id, v, w)}) = i - 1
        /\ \A w, v \in words :
               (/\ w.word \in Range(last.result)
                /\ v.word \notin Range(last.result)
                /\ ~Used(last.usage_before, last.user_id, v))
               => ~Used(last.usage_before, last.user_id, w)

\* C3 (as claimed): two successive selections of n < V words for one user
\* overlap in exactly max(0, 2n - V) words.
C3_SuccessiveMinimalOverlap ==
    (/\ last.op = "select"
     /\ prev.op = "select"
     /\ prev.user_id = last.user_id
     /\ prev.limit = last.limit
     /\ last.limit < Cardinality(words))
    => Cardinality(Range(last.result) \cap Range(prev.result))
           = Max(0, 2 * last.limit - Cardinality(words))

\* C5: a selection returns min(n, V) pairwise distinct stored words; with an
\* empty store it returns the empty list and writes no usage record.
C5_SelectCount ==
    last.op = "select" =>
        /\ Len(last.result) = Min(last.limit, Cardinality(words))
        /\ \A i, j \in 1..Len(last.result) :
               i # j => last.result[i] # last.result[j]
        /\ Range(last.result) \subseteq WordTexts(words)
        /\ (last.limit >= Cardinality(words) => Range(last.result) = WordTexts(words))
        /\ (words = {} => last.result = <<>> /\ usage = last.usage_before)

\* more words were asked for than the store holds, and all of them came back
C5_Witness ==
    /\ last.op = "select"
    /\ Cardinality(words) >= 2
    /\ last.limit > Cardinality(words)
    /\ Len(last.result) = Cardinality(words)

-----------------------------------------------------------------------------
(* Selections served concurrently: each worker serves one request, and the  *)
(* statements of select_words_for_user of different workers interleave.     *)

Workers == {1, 2}

IdleCall == [pc |-> "idle"]

InitConc ==
    /\ ExtractorIdle
    /\ AccountsIdle
    /\ words \in {Vocabulary(k) : k \in 0..MaxVocab}
    /\ usage = {}
    /\ clock = 0
    /\ last = NoRequest
    /\ prev = NoRequest
    /\ sel = [w \in Workers |-> IdleCall]

\* the SELECT of select_words_for_user; an empty result returns at once
Query(w) ==
    /\ sel[w].pc = "idle"
    /\ \E user_id \in Users :
       \E limit \in 1..MaxLimit :
       \E rows \in random_rows(words, limit) :
          IF rows = <<>>
          THEN /\ sel' = [sel EXCEPT ![w] = [pc |-> "done", user_id |-> user_id,
                                             rows |-> rows, result |-> <<>>]]
               /\ last' = [op |-> "select", worker |-> w, user_id |-> user_id,
                           rows |-> rows, result |-> <<>>, now |-> clock,
                           usage_before |-> usage]
          ELSE /\ sel' = [sel EXCEPT ![w] = [pc |-> "stamp", user_id |-> user_id,
                                             rows |-> rows]]
               /\ last' = last
    /\ UNCHANGED <<audit, client, users, sessions, seq, handles, call, deck, xpc, result, words, usage, clock, prev>>

\* now = utc_now(); the next reading of the clock is the same or later
ReadNow(w) ==
    /\ sel[w].pc = "stamp"
    /\ sel' = [sel EXCEPT ![w] = [pc |-> "write", user_id |-> sel[w].user_id,
                                  rows |-> sel[w].rows, now |-> clock]]
    /\ clock' \in {clock, clock + 1}
    /\ UNCHANGED <<audit, client, users, sessions, seq, handles, call, deck, xpc, result, words, usage, last, prev>>

\* executemany of the upserts and commit, one write transaction, then return
Write(w) ==
    /\ sel[w].pc = "write"
    /\ \E r \in {select_words_for_user(usage, sel[w].user_id, sel[w].rows, sel[w].now)} :
          /\ usage' = r.usage
          /\ sel' = [sel EXCEPT ![w] = [pc |-> "done", user_id |-> sel[w].user_id,
                                        rows |-> sel[w].rows, result |-> r.result]]
          /\ last' = [op |-> "select", worker |-> w, user_id |-> sel[w].user_id,
                      rows |-> sel[w].rows, result |-> r.result, now |-> sel[w].now,
                      usage_before |-> usage]
    /\ UNCHANGED <<audit, client, users, sessions, seq, handles, call, deck, xpc, result, words, clock, prev>>

NextConc == \E w \in Workers : Query(w) \/ ReadNow(w) \/ Write(w)

SpecConc == InitConc /\ [][NextConc]_vars

-----------------------------------------------------------------------------
(* C4.                                                                     *)

Touched(l, u) == u.user_id = l.user_id /\ \E i \in 1..Len(l.rows) : l.rows[i].id = u.word_id

\* C4: when a selection has completed, each returned word has exactly one
\* usage record of that user, carrying the time of the call; all other usage
\* records are as they were before its write; and in every state of every
\* interleaving no (user, word) pair has two usage records.
C4_UpsertExact ==
    /\ last.op = "select" =>
           /\ \A i \in 1..Len(last.rows) :
                  {u.last_used_at : u \in {x \in usage :
                        x.user_id = last.user_id /\ x.word_id = last.rows[i].id}}
                      = {last.now}
           /\ \A i \in 1..Len(last.rows) :
                  Cardinality({x \in usage :
                        x.user_id = last.user_id /\ x.word_id = last.rows[i].id}) = 1
           /\ {u \in usage : ~Touched(last, u)}
                  = {u \in last.usage_before : ~Touched(last, u)}
           /\ last.result = [i \in 1..Len(last.rows) |-> last.rows[i].word]
    /\ \A u1, u2 \in usage :
           (u1.user_id = u2.user_id /\ u1.word_id = u2.word_id) => u1 = u2

\* a selection that overlapped another one has completed: it rewrote in place a
\* record the other had written at another time, and created a record as well
C4_Witness ==
    /\ last.op = "select"
    /\ \A w \in Workers : sel[w].pc = "done"
    /\ \E w \in Workers : w # last.worker /\ sel[w].user_id = last.user_id
    /\ \E u \in last.usage_before : Touched(last, u) /\ u.last_used_at > last.now
    /\ \E i \in 1..Len(last.rows) :
           \A u \in last.usage_before :
               ~(u.user_id = last.user_id /\ u.word_id = last.rows[i].id)

-----------------------------------------------------------------------------
(* server.py: accounts, sessions and the requests that act on them.        *)

MaxUserId == 2      \* rows ever inserted into the users table
MaxTokens == 2      \* session tokens ever issued

SESSION_TTL_SECONDS == 60 * 60 * 24

\* DEFAULT_USER and DEFAULT_PASSWORD, written "a" and "p"
DEFAULT_USER == <<97>>
DEFAULT_PASSWORD == <<112>>

\* a request without the croco_session cookie
NoCookie == 0

UserRow(id, username, password_hash, is_admin) ==
    [id |-> id, username |-> username, password_hash |-> password_hash,
     is_admin |-> is_admin]

SessionRow(token, user_id, expires_at) ==
    [token |-> token, user_id |-> user_id, expires_at |-> expires_at]

\* the database: its four tables and the AUTOINCREMENT / token counters
Db == [users |-> users, sessions |-> sessions, usage |-> usage,
       words |-> words, seq |-> seq]

\* hashlib.pbkdf2_hmac of the password: a digest that determines, and is
\* determined by, the password (the random salt is stored next to it)
hash_password(password) == <<"pbkdf2_hmac", password>>

verify_password(password, expected) == hash_password(password) = expected

\* SELECT ... FROM users WHERE username = ?  (username is UNIQUE)
get_user_by_username(db, username) ==
    {u \in db.users : u.username = username}

\* INSERT INTO users ...; the id comes from the AUTOINCREMENT counter
create_user(db, username, password, is_admin) ==
    [db EXCEPT !.users = @ \cup {UserRow(db.seq.users + 1, username,
                                         hash_password(password), is_admin)},
               !.seq.users = @ + 1]

\* UPDATE users SET password_salt = ?, password_hash = ? WHERE username = ?
update_user_password(db, username, password) ==
    [db EXCEPT !.users = {IF u.username = username
                          THEN [u EXCEPT !.password_hash = hash_password(password)]
                          ELSE u : u \in @}]

\* UPDATE users SET is_admin = ? WHERE username = ?
update_user_admin(db, username, is_admin) ==
    [db EXCEPT !.users = {IF u.username = username
                          THEN [u EXCEPT !.is_admin = is_admin]
                          ELSE u : u \in @}]

delete_user_no_cascade(db, username) ==
    [db EXCEPT !.users = {u \in @ : u.username # username}]

\* DELETE FROM users WHERE username = ? on a connection with
\* PRAGMA foreign_keys = ON: the usage and session rows that reference the
\* deleted row are deleted with it (ON DELETE CASCADE)
delete_user(db, username) ==
    LET gone == {u.id : u \in get_user_by_username(db, username)}
    IN  [db EXCEPT !.users = {u \in @ : u.username # username},
                   !.usage = {r \in @ : r.user_id \notin gone},
                   !.sessions = {s \in @ : s.user_id \notin gone}]

\* SELECT COUNT(*) FROM users WHERE is_admin = 1
count_admins(db) == Cardinality({u \in db.users : u.is_admin})

reset_all_usage(db, user_id) == [db EXCEPT !.usage = {}]

\* DELETE FROM user_word_usage WHERE user_id = ?
reset_user_usage(db, user_id) ==
    [db EXCEPT !.usage = {r \in @ : r.user_id # user_id}]

\* secrets.token_urlsafe(32) yields a token never issued before;
\* expires_at = now + SESSION_TTL_SECONDS
create_session(db, user_id, now) ==
    [db EXCEPT !.sessions = @ \cup {SessionRow(db.seq.sessions + 1, user_id,
                                               now + SESSION_TTL_SECONDS)},
               !.seq.sessions = @ + 1]

get_user_by_session_inclusive(db, token, now) ==
    {u \in db.users : \E s \in db.sessions :
        s.token = token /\ s.user_id = u.id /\ s.expires_at >= now}

\* SELECT u.* FROM sessions AS s JOIN users AS u ON u.id = s.user_id
\* WHERE s.token = ? AND s.expires_at > ?
get_user_by_session(db, token, now) ==
    {u \in db.users : \E s \in db.sessions :
        s.token = token /\ s.user_id = u.id /\ s.expires_at > now}

\* a nullable column is a set of at most one value; NULL is what the
\* LEFT JOIN yields for last_used_at when it finds no usage row
NULL == {}

\* format_last_used(value): the sentinel text for a missing value, the
\* rendered timestamp otherwise
format_last_used(value) ==
    IF value = NULL THEN <<"never used">>
    ELSE <<"used at", CHOOSE t \in value : TRUE>>

\* list_words(conn, user_id=..., order="alpha") with a page holding every
\* row: (id, word, format_last_used(last_used_at)) in ascending word order
list_words(db, user_id) ==
    LET sorted == SortTexts({w.word : w \in db.words})
        row(t) == CHOOSE w \in db.words : w.word = t
        hit(w) == {u \in db.usage : u.word_id = w.id /\ u.user_id = user_id}
        value(w) == {u.last_used_at : u \in hit(w)}
    IN  [i \in 1..Len(sorted) |->
            [id |-> row(sorted[i]).id, word |-> sorted[i],
             last_used |-> format_last_used(value(row(sorted[i])))]]

\* an HTTP response together with the database the request leaves behind
Response(code, location, db) == [code |-> code, location |-> location, db |-> db]

\* get_current_user_session: 303 to /login without a cookie or without a
\* live session row, the User (id, username, is_admin as stored now) otherwise
get_current_user_session(db, token, now) ==
    IF token = NoCookie \/ get_user_by_session(db, token, now) = {}
    THEN [code |-> 303, location |-> "/login"]
    ELSE [code |-> 200, user |-> CHOOSE u \in get_user_by_session(db, token, now) : TRUE]

require_admin_unchecked(db, token, now) == get_current_user_session(db, token, now)

\* require_admin: 403 unless the session's user is an admin
require_admin(db, token, now) ==
    LET auth == get_current_user_session(db, token, now)
    IN  IF auth.code # 200 THEN auth
        ELSE IF ~auth.user.is_admin THEN [code |-> 403, location |-> "none"]
        ELSE auth

\* POST /login
login(db, username, password, now) ==
    LET clean_username == Strip(username)
        clean_password == Strip(password)
        row == get_user_by_username(db, clean_username)
    IN  IF row = {} \/ ~verify_password(clean_password,
                                        (CHOOSE u \in row : TRUE).password_hash)
        THEN Response(401, "none", db)
        ELSE Response(303, "/", create_session(db, (CHOOSE u \in row : TRUE).id, now))

\* GET /words.txt, the query returning `rows`
words_txt(db, token, rows, now) ==
    LET auth == get_current_user_session(db, token, now)
    IN  IF auth.code # 200 THEN Response(auth.code, auth.location, db)
        ELSE Response(200, "none",
                 [db EXCEPT !.usage =
                     select_words_for_user(db.usage, auth.user.id, rows, now).usage])

\* POST /usage/reset
reset_usage(db, token, now) ==
    LET auth == get_current_user_session(db, token, now)
    IN  IF auth.code # 200 THEN Response(auth.code, auth.location, db)
        ELSE Response(303, "/", reset_user_usage(db, auth.user.id))

\* POST /admin/users/create
admin_create_user(db, token, username, password, is_admin, now) ==
    LET auth == require_admin(db, token, now)
        clean_username == Strip(username)
        clean_password == Strip(password)
    IN  IF auth.code # 200 THEN Response(auth.code, auth.location, db)
        ELSE IF clean_username = <<>> \/ clean_password = <<>>
        THEN Response(400, "none", db)
        ELSE IF get_user_by_username(db, clean_username) # {}
        THEN Response(409, "none", db)
        ELSE Response(303, "/admin",
                      create_user(db, clean_username, clean_password, is_admin))

\* POST /admin/users/password
admin_update_password(db, token, username, password, now) ==
    LET auth == require_admin(db, token, now)
        clean_username == Strip(username)
        clean_password == Strip(password)
    IN  IF auth.code # 200 THEN Response(auth.code, auth.location, db)
        ELSE IF clean_username = <<>> \/ clean_password = <<>>
        THEN Response(400, "none", db)
        ELSE IF get_user_by_username(db, clean_username) = {}
        THEN Response(404, "none", db)
        ELSE Response(303, "/admin",
                      update_user_password(db, clean_username, clean_password))

admin_update_role_any_target(db, token, username, is_admin, now) ==
    LET auth == require_admin(db, token, now)
        clean_username == Strip(username)
        target == get_user_by_username(db, clean_username)
    IN  IF auth.code # 200 THEN Response(auth.code, auth.location, db)
        ELSE IF clean_username = <<>> THEN Response(400, "none", db)
        ELSE IF target = {} THEN Response(404, "none", db)
        ELSE Response(303, "/admin", update_user_admin(db, clean_username, is_admin))

\* POST /admin/users/role
admin_update_role(db, token, username, is_admin, now) ==
    LET auth == require_admin(db, token, now)
        clean_username == Strip(username)
        target == get_user_by_username(db, clean_username)
    IN  IF auth.code # 200 THEN Response(auth.code, auth.location, db)
        ELSE IF clean_username = <<>> THEN Response(400, "none", db)
        ELSE IF target = {} THEN Response(404, "none", db)
        ELSE IF ~is_admin /\ clean_username = auth.user.username
        THEN Response(400, "none", db)
        ELSE IF ~is_admin /\ (CHOOSE u \in target : TRUE).is_admin
                /\ count_admins(db) <= 1
        THEN Response(400, "none", db)
        ELSE Response(303, "/admin", update_user_admin(db, clean_username, is_admin))

\* POST /admin/users/delete
admin_delete_user(db, token, username, now) ==
    LET auth == require_admin(db, token, now)
        clean_username == Strip(username)
        target == get_user_by_username(db, clean_username)
    IN  IF auth.code # 200 THEN Response(auth.code, auth.location, db)
        ELSE IF clean_username = <<>> THEN Response(400, "none", db)
        ELSE IF clean_username = auth.user.username THEN Response(400, "none", db)
        ELSE IF target = {} THEN Response(404, "none", db)
        ELSE IF (CHOOSE u \in target : TRUE).is_admin /\ count_admins(db) <= 1
        THEN Response(400, "none", db)
        ELSE Response(303, "/admin", delete_user(db, clean_username))

\* POST /admin/users/reset-usage
admin_reset_usage(db, token, username, now) ==
    LET auth == require_admin(db, token, now)
        clean_username == Strip(username)
        target == get_user_by_username(db, clean_username)
    IN  IF auth.code # 200 THEN Response(auth.code, auth.location, db)
        ELSE IF clean_username = <<>> THEN Response(400, "none", db)
        ELSE IF target = {} THEN Response(404, "none", db)
        ELSE Response(303, "/admin",
                      reset_user_usage(db, (CHOOSE u \in target : TRUE).id))

\* ensure_admin_user(db_path): the default account is created as an admin
\* when missing and promoted to admin otherwise
ensure_admin_user(db) ==
    IF get_user_by_username(db, DEFAULT_USER) = {}
    THEN create_user(db, DEFAULT_USER, DEFAULT_PASSWORD, TRUE)
    ELSE update_user_admin(db, DEFAULT_USER, TRUE)

-----------------------------------------------------------------------------
(* The accounts under requests served one at a time.                       *)

\* usernames as typed into the forms: "a", " b" and " "
NamePool == {<<97>>, <<32, 98>>, <<32>>}

\* passwords as typed into the login form: "p" and "q"
PasswordPool == {<<112>>, <<113>>}

\* the password an admin gives a new account, "p", and a changed one, "q"
NewPasswords == {<<112>>}
ChangedPasswords == {<<113>>}

\* the vocabulary the accounts draw from: the single word "a"
AdminVocabulary == Vocabulary(1)

\* the cookie a request carries: none, or a token issued at some time
Cookies == {NoCookie} \cup (1..MaxTokens)

\* the database left by startup() on a fresh file, the vocabulary uploaded
InitAdmin ==
    /\ ExtractorIdle
    /\ words = AdminVocabulary
    /\ usage = {}
    /\ clock = 0
    /\ last = NoRequest
    /\ prev = NoRequest
    /\ sel = <<>>
    /\ sessions = {}
    /\ \E db \in {ensure_admin_user([users |-> {}, sessions |-> {}, usage |-> {},
                                     words |-> {}, seq |-> [users |-> 0, sessions |-> 0]])} :
          /\ users = db.users
          /\ seq = db.seq
    /\ handles = {}
    /\ audit = NoAudit
    /\ client = NoClient
    /\ call = NoCall

\* a request is served: the database it leaves and the record of the request
Served(req, r) ==
    /\ r.db.seq.users <= MaxUserId
    /\ r.db.seq.sessions <= MaxTokens
    /\ users' = r.db.users
    /\ sessions' = r.db.sessions
    /\ usage' = r.db.usage
    /\ seq' = r.db.seq
    /\ last' = [op |-> req.op, req |-> req, code |-> r.code,
                location |-> r.location, before |-> Db]
    /\ UNCHANGED <<audit, client, deck, xpc, result, words, clock, prev, sel, handles, call>>

Login ==
    \E username \in NamePool, password \in PasswordPool :
       \E r \in {login(Db, username, password, clock)} :
          Served([op |-> "login", username |-> username, password |-> password], r)

WordsTxt ==
    \E token \in Cookies, limit \in 1..Cardinality(AdminVocabulary) :
    \E rows \in random_rows(words, limit) :
       \E r \in {words_txt(Db, token, rows, clock)} :
          Served([op |-> "words_txt", token |-> token, rows |-> rows], r)

ResetUsage ==
    \E token \in Cookies :
       \E r \in {reset_usage(Db, token, clock)} :
          Served([op |-> "reset_usage", token |-> token], r)

AdminCreateUser ==
    \E token \in Cookies, username \in NamePool, password \in NewPasswords,
       is_admin \in BOOLEAN :
       \E r \in {admin_create_user(Db, token, username, password, is_admin, clock)} :
          Served([op |-> "admin_create_user", token |-> token, username |-> username,
               password |-> password, is_admin |-> is_admin], r)

AdminUpdatePassword ==
    \E token \in Cookies, username \in NamePool, password \in ChangedPasswords :
       \E r \in {admin_update_password(Db, token, username, password, clock)} :
          Served([op |-> "admin_update_password", token |-> token,
               username |-> username, password |-> password], r)

AdminUpdateRole ==
    \E token \in Cookies, username \in NamePool, is_admin \in BOOLEAN :
       \E r \in {admin_update_role(Db, token, username, is_admin, clock)} :
          Served([op |-> "admin_update_role", token |-> token, username |-> username,
               is_admin |-> is_admin], r)

AdminDeleteUser ==
    \E token \in Cookies, username \in NamePool :
       \E r \in {admin_delete_user(Db, token, username, clock)} :
          Served([op |-> "admin_delete_user", token |-> token, username |-> username], r)

AdminResetUsage ==
    \E token \in Cookies, username \in NamePool :
       \E r \in {admin_reset_usage(Db, token, username, clock)} :
          Served([op |-> "admin_reset_usage", token |-> token, username |-> username], r)

NextAdmin ==
    \/ Login
    \/ WordsTxt
    \/ ResetUsage
    \/ AdminCreateUser
    \/ AdminUpdatePassword
    \/ AdminUpdateRole
    \/ AdminDeleteUser
    \/ AdminResetUsage

SpecAdmin == InitAdmin /\ [][NextAdmin]_vars

-----------------------------------------------------------------------------
(* C11, C12, C17, C20.                                                     *)

\* the request `last` was carried out (not redirected to /login, not refused)
Done(l) == l.code = 303 /\ l.location # "/login"

\* the accounts a usage reset is aimed at: the session's account for
\* /usage/reset, the named account for /admin/users/reset-usage
ResetTargets(l) ==
    IF l.op = "reset_usage"
    THEN {u.id : u \in get_user_by_session(l.before, l.req.token, clock)}
    ELSE {u.id : u \in get_user_by_username(l.before, Strip(l.req.username))}

\* C11: after a usage reset for an account no usage row of that account is
\* left, so list_words shows every word of the vocabulary as never used for
\* it; the usage rows of the other accounts and the words table are as before
C11_ResetUsageExact ==
    (last.op \in {"reset_usage", "admin_reset_usage"} /\ Done(last)) =>
        /\ Cardinality(ResetTargets(last)) = 1
        /\ \A t \in ResetTargets(last) :
              /\ ~\E r \in usage : r.user_id = t
              /\ Len(list_words(Db, t)) = Cardinality(words)
              /\ \A i \in DOMAIN list_words(Db, t) :
                     list_words(Db, t)[i].last_used = <<"never used">>
              /\ {r \in usage : r.user_id # t}
                     = {r \in last.before.usage : r.user_id # t}
        /\ words = last.before.words

C11_Witness ==
    /\ last.op \in {"reset_usage", "admin_reset_usage"}
    /\ Done(last)
    /\ \E t \in ResetTargets(last) :
          /\ \E r \in last.before.usage : r.user_id = t
          /\ \E r \in usage : r.user_id # t
          /\ \E i \in DOMAIN list_words(last.before, t) :
                 list_words(last.before, t)[i].last_used # <<"never used">>

\* the accounts a delete request names
DeleteTargets(l) ==
    {u \in l.before.users : u.username = Strip(l.req.username)}

\* C12: every usage row and every session row refers to an existing
\* account; a deletion removes the account with all its usage and session
\* rows, and leaves the words and the other accounts' rows as they were
C12_AccountCascade ==
    /\ \A r \in usage : \E u \in users : u.id = r.user_id
    /\ \A s \in sessions : \E u \in users : u.id = s.user_id
    /\ (last.op = "admin_delete_user" /\ Done(last)) =>
          LET gone == {u.id : u \in DeleteTargets(last)}
          IN  /\ Cardinality(gone) = 1
              /\ users = last.before.users \ DeleteTargets(last)
              /\ usage = {r \in last.before.usage : r.user_id \notin gone}
              /\ sessions = {x \in last.before.sessions : x.user_id \notin gone}
              /\ words = last.before.words

C12_Witness ==
    /\ last.op = "admin_delete_user"
    /\ Done(last)
    /\ \E d \in DeleteTargets(last) :
          /\ \E r \in last.before.usage : r.user_id = d.id
          /\ \E x \in last.before.sessions : x.user_id = d.id
    /\ usage # {}
    /\ sessions # {}
    /\ words # {}

\* the requests only an admin may make
AdminOps == {"admin_create_user", "admin_update_password", "admin_update_role",
             "admin_delete_user", "admin_reset_usage"}

\* the account whose live session the request carried
Requester(l) == get_user_by_session(l.before, l.req.token, clock)

\* C17: an admin request carried by the live session of an account that is
\* not an admin at that time is answered 403 and changes nothing
C17_NonAdminForbidden ==
    (last.op \in AdminOps /\ \E u \in Requester(last) : ~u.is_admin) =>
        /\ last.code = 403
        /\ Db = last.before

\* the bootstrapped admin (id 1) is refused on the first session ever
\* issued: that session was opened before a second account existed, so the
\* demotion by the second account came while it was live
C17_Witness ==
    /\ last.op \in AdminOps
    /\ last.code = 403
    /\ last.req.token = 1
    /\ \E u \in Requester(last) : u.id = 1 /\ u.username = DEFAULT_USER

\* an admin request `l` names the requester's own account
NamesSelf(l) == \E u \in Requester(l) : u.is_admin /\ u.username = Strip(l.req.username)

\* an admin request `l` names an admin who is the only one
NamesLastAdmin(l) ==
    /\ \E u \in Requester(l) : u.is_admin
    /\ \E u \in get_user_by_username(l.before, Strip(l.req.username)) : u.is_admin
    /\ count_admins(l.before) <= 1

\* C20: at least one admin exists after any sequence of requests served one
\* at a time; demoting oneself, deleting oneself and demoting or deleting
\* the last admin are refused with 400 and change nothing
C20_AdminRemains ==
    /\ count_admins(Db) >= 1
    /\ (/\ \/ last.op = "admin_update_role" /\ ~last.req.is_admin
           \/ last.op = "admin_delete_user"
        /\ NamesSelf(last) \/ NamesLastAdmin(last))
       => (last.code = 400 /\ Db = last.before)

\* an admin is refused the demotion of their own account while a second
\* admin exists
C20_Witness ==
    /\ last.op = "admin_update_role"
    /\ ~last.req.is_admin
    /\ NamesSelf(last)
    /\ last.code = 400
    /\ count_admins(Db) = 2

-----------------------------------------------------------------------------
(* C13.                                                                    *)

\* the cleaned candidate set of an upload
CleanedCandidates(extracted) ==
    {clean_word(w) : w \in Range(extracted)} \ {<<>>}

\* C13: an upload whose cleaned candidate set is empty hands check_spelling
\* the empty list, which answers [] without a call to the spelling service;
\* the upload succeeds with nothing checked, nothing inserted and the words
\* table as before
C13_EmptyBatchNoCall ==
    (last.op = "upload" /\ CleanedCandidates(last.extracted) = {}) =>
        /\ last.requests = <<>>
        /\ last.checked_unique = 0
        /\ last.inserted = 0
        /\ words = last.words_before

C13_Witness ==
    /\ last.op = "upload"
    /\ last.extracted # <<>>
    /\ CleanedCandidates(last.extracted) = {}
    /\ last.requests = <<>>
    /\ words # {}

-----------------------------------------------------------------------------
(* check_spelling applied to bounded token lists.                          *)

MaxBatch == 3       \* tokens handed to one check_spelling call

\* non-empty whitespace-free tokens: "a", "b", "ab"
TokenPool == {<<97>>, <<98>>, <<97, 98>>}

\* what the service may answer: the answers of SpellerAnswers and "b  a\n"
ServiceAnswers(batch) == SpellerAnswers(batch) \cup {<<98, 32, 32, 97, 10>>}

InitSpell ==
    /\ ExtractorIdle
    /\ StoreIdle
    /\ users = {}
    /\ sessions = {}
    /\ seq = [users |-> 0, sessions |-> 0]
    /\ handles = {}
    /\ audit = NoAudit
    /\ client = NoClient
    /\ \E ws \in SeqsUpTo(TokenPool, MaxBatch) :
          call = [fn |-> "check_spelling", pc |-> "call", words |-> ws,
                  requests |-> <<>>, answer |-> <<>>, result |-> <<>>]

\* check_spelling(words), the service answering `answer` if it is called
CheckSpelling ==
    /\ call.fn = "check_spelling"
    /\ call.pc = "call"
    /\ \E answer \in ServiceAnswers(Join(call.words, <<32>>)) :
          call' = [call EXCEPT !.pc = "done",
                               !.requests = speller_calls(call.words),
                               !.answer = answer,
                               !.result = check_spelling(call.words, answer)]
    /\ UNCHANGED <<audit, client, deck, xpc, result, words, usage, clock, last, prev, sel,
                   users, sessions, seq, handles>>

NextSpell == CheckSpelling

SpecSpell == InitSpell /\ [][NextSpell]_vars

-----------------------------------------------------------------------------
(* C14.                                                                    *)

\* the tokens with one space between neighbours
RECURSIVE SpaceJoined(_)
SpaceJoined(ws) ==
    IF Len(ws) = 1 THEN ws[1]
    ELSE ws[1] \o <<32>> \o SpaceJoined(Tail(ws))

\* the positions where a whitespace-free run of a text starts
TokenStarts(t) ==
    {i \in 1..Len(t) : ~IsSpace(t[i]) /\ (i = 1 \/ IsSpace(t[i - 1]))}

\* C14: for a non-empty list of non-empty whitespace-free tokens
\* check_spelling makes exactly one call, with the tokens joined by single
\* spaces in input order, and returns the whitespace-free runs of the answer
\* in order; when the service echoes its input the result is the input
C14_OneCallJoined ==
    (call.fn = "check_spelling" /\ call.pc = "done" /\ call.words # <<>>) =>
        /\ call.requests = <<SpaceJoined(call.words)>>
        /\ Len(call.result) = Cardinality(TokenStarts(call.answer))
        /\ \A k \in DOMAIN call.result :
              /\ call.result[k] # <<>>
              /\ \A i \in DOMAIN call.result[k] : ~IsSpace(call.result[k][i])
        /\ Join(call.result, <<>>) = SelectSeq(call.answer, LAMBDA c : ~IsSpace(c))
        /\ (call.answer = SpaceJoined(call.words) => call.result = call.words)

C14_Witness ==
    /\ call.fn = "check_spelling"
    /\ call.pc = "done"
    /\ Len(call.words) = 3
    /\ call.answer = SpaceJoined(call.words)
    /\ call.result = call.words
    /\ call.words[1] # call.words[2]

-----------------------------------------------------------------------------
(* main.py: read_zipped_file.                                              *)

MaxEntries == 2     \* entries of the archive

\* ZipInfo.is_dir(): the entry's name ends with "/"
is_dir(filename) == filename # <<>> /\ filename[Len(filename)] = 47

\* the last position of character c in t, 0 when there is none
LastIndexOf(t, c) ==
    IF \E i \in 1..Len(t) : t[i] = c
    THEN CHOOSE i \in 1..Len(t) : t[i] = c /\ \A j \in (i + 1)..Len(t) : t[j] # c
    ELSE 0

\* a path without its trailing slashes
RECURSIVE StripSlashes(_)
StripSlashes(t) ==
    IF t # <<>> /\ t[Len(t)] = 47 THEN StripSlashes(SubSeq(t, 1, Len(t) - 1))
    ELSE t

\* Path(filename).name: the final component of the path
path_name(filename) ==
    LET p == StripSlashes(filename)
    IN  SubSeq(p, LastIndexOf(p, 47) + 1, Len(p))

\* Path(filename).suffix: the name from its last dot on, unless the dot
\* starts or ends the name
path_suffix(filename) ==
    LET name == path_name(filename)
        i == LastIndexOf(name, 46)
    IN  IF 1 < i /\ i < Len(name) THEN SubSeq(name, i, Len(name)) ELSE <<>>

\* ".pptx"
PPTX_SUFFIX == <<46, 112, 112, 116, 120>>

is_pptx_case_sensitive(filename) == path_suffix(filename) = PPTX_SUFFIX

\* Path(info.filename).suffix.lower() == ".pptx"
is_pptx(filename) == LowerText(path_suffix(filename)) = PPTX_SUFFIX

\* the loop over archive.infolist() from entry i on: the entries handed to
\* get_words_form_file so far, and the set of words collected
RECURSIVE walk_archive(_, _, _)
walk_archive(entries, i, acc) ==
    IF i > Len(entries) THEN acc
    ELSE IF is_dir(entries[i].filename) THEN walk_archive(entries, i + 1, acc)
    ELSE IF ~is_pptx(entries[i].filename) THEN walk_archive(entries, i + 1, acc)
    ELSE walk_archive(entries, i + 1,
             [calls |-> Append(acc.calls, i),
              words |-> acc.words \cup Range(get_words_form_file(entries[i].deck))])

\* save_words_to_file(words, path): the text written, each word and "\n"
RECURSIVE file_lines(_)
file_lines(ws) ==
    IF ws = <<>> THEN <<>> ELSE Head(ws) \o <<10>> \o file_lines(Tail(ws))

\* the file system before the call: no output directory, no output file
NoOutput == [dir_made |-> FALSE, written |-> {}]

read_zipped_file_mkdir_first(archive, answer) ==
    [error |-> "FileNotFoundError", calls |-> <<>>, checked |-> <<>>,
     requests |-> <<>>, returned |-> <<>>,
     output |-> [dir_made |-> TRUE, written |-> {}]]

\* read_zipped_file(archive_path, output_path), the spelling service
\* answering `answer`: the entries handed to the extractor, the lists handed
\* to check_spelling, what was sent to the service, what check_spelling
\* returned, and the output directory and file
read_zipped_file(archive, answer) ==
    IF ~archive.is_file
    THEN [error |-> "FileNotFoundError", calls |-> <<>>, checked |-> <<>>,
          requests |-> <<>>, returned |-> <<>>, output |-> NoOutput]
    ELSE LET w == walk_archive(archive.entries, 1, [calls |-> <<>>, words |-> {}])
             sorted_words == SortTexts(w.words)
             checked_words == check_spelling(sorted_words, answer)
         IN  [error |-> "none", calls |-> w.calls, checked |-> <<sorted_words>>,
              requests |-> speller_calls(sorted_words), returned |-> checked_words,
              output |-> [dir_made |-> TRUE,
                          written |-> {file_lines(checked_words)}]]

-----------------------------------------------------------------------------
(* read_zipped_file applied to bounded archives.                           *)

\* entry names: "a.pptx", "b.PPTX", "n.txt", "d/", "d/c.pptx", "e.pptx/"
\* and ".pptx"
EntryNames ==
    { <<97, 46, 112, 112, 116, 120>>,
      <<98, 46, 80, 80, 84, 88>>,
      <<110, 46, 116, 120, 116>>,
      <<100, 47>>,
      <<100, 47, 99, 46, 112, 112, 116, 120>>,
      <<101, 46, 112, 112, 116, 120, 47>>,
      <<46, 112, 112, 116, 120>> }

\* the presentations an entry may hold: one slide with "a\n" and "b", one
\* slide with "b" and "a b"
EntryDecks ==
    { << <<Shape(<<97, 10>>, TRUE), Shape(<<98>>, TRUE)>> >>,
      << <<Shape(<<98>>, TRUE), Shape(<<97, 32, 98>>, TRUE)>> >> }

Entry(filename, d) == [filename |-> filename, deck |-> d]

\* an archive path that is no file, and the archives of bounded length
Archives ==
    {[is_file |-> FALSE, entries |-> <<>>]} \cup
    {[is_file |-> TRUE, entries |-> es] :
        es \in SeqsUpTo({Entry(f, d) : f \in EntryNames, d \in EntryDecks}, MaxEntries)}

InitZip ==
    /\ ExtractorIdle
    /\ StoreIdle
    /\ users = {}
    /\ sessions = {}
    /\ seq = [users |-> 0, sessions |-> 0]
    /\ handles = {}
    /\ audit = NoAudit
    /\ client = NoClient
    /\ \E archive \in Archives :
          call = [fn |-> "read_zipped_file", pc |-> "call", archive |-> archive,
                  answer |-> <<>>,
                  out |-> [error |-> "none", calls |-> <<>>, checked |-> <<>>,
                           requests |-> <<>>, returned |-> <<>>, output |-> NoOutput]]

\* python main.py --archive ... --output ...
ReadZippedFile ==
    /\ call.fn = "read_zipped_file"
    /\ call.pc = "call"
    /\ \E answer \in {<<97, 32, 98>>, <<99>>} :
       \E r \in {read_zipped_file(call.archive, answer)} :
          call' = [call EXCEPT !.pc = "done", !.answer = answer, !.out = r]
    /\ UNCHANGED <<audit, client, deck, xpc, result, words, usage, clock, last, prev, sel,
                   users, sessions, seq, handles>>

NextZip == ReadZippedFile

SpecZip == InitZip /\ [][NextZip]_vars

-----------------------------------------------------------------------------
(* C15, C16.                                                               *)

\* the entry is no directory and its name ends, after a non-empty stem, in
\* ".pptx" written in any case
IsPptxEntry(f) ==
    /\ Len(f) > 5
    /\ f[Len(f)] # 47
    /\ LowerText(SubSeq(f, Len(f) - 4, Len(f))) = <<46, 112, 112, 116, 120>>
    /\ f[Len(f) - 5] # 47

\* C15: read_zipped_file hands to the extractor each non-directory entry
\* with the extension .pptx (in any case, in any sub-directory) exactly once
\* and no other entry; check_spelling receives, once, the sorted list
\* without duplicates of all words extracted; what it returns is what is
\* written to the output file, a word per line
C15_PptxEntriesOnly ==
    (call.fn = "read_zipped_file" /\ call.pc = "done" /\ call.archive.is_file) =>
        LET es == call.archive.entries
            out == call.out
            Q == {i \in DOMAIN es : IsPptxEntry(es[i].filename)}
        IN  /\ out.error = "none"
            /\ Range(out.calls) = Q
            /\ Len(out.calls) = Cardinality(Q)
            /\ Len(out.checked) = 1
            /\ \A i, j \in DOMAIN out.checked[1] :
                   i < j => TextLess(out.checked[1][i], out.checked[1][j])
            /\ Range(out.checked[1])
                   = UNION {Range(get_words_form_file(es[i].deck)) : i \in Q}
            /\ Cardinality(out.output.written) = 1
            /\ \A t \in out.output.written :
                  /\ Len(SelectSeq(t, LAMBDA c : c = 10)) = Len(out.returned)
                  /\ SelectSeq(t, LAMBDA c : c # 10) = Join(out.returned, <<>>)
                  /\ t = <<>> \/ t[Len(t)] = 10

\* of a directory named "e.pptx/" and the file "b.PPTX" only the second is
\* extracted, and two words are written
C15_Witness ==
    /\ call.fn = "read_zipped_file"
    /\ call.pc = "done"
    /\ Len(call.archive.entries) = 2
    /\ call.archive.entries[1].filename = <<101, 46, 112, 112, 116, 120, 47>>
    /\ call.archive.entries[2].filename = <<98, 46, 80, 80, 84, 88>>
    /\ call.out.calls = <<2>>
    /\ call.out.returned = <<<<97>>, <<98>>>>
    /\ call.out.output.written = {<<97, 10, 98, 10>>}

\* C16: for an archive path that is no file read_zipped_file raises
\* FileNotFoundError before anything else: nothing is extracted, nothing is
\* spell-checked, no output directory or file is created
C16_MissingArchiveNotFound ==
    (call.fn = "read_zipped_file" /\ call.pc = "done" /\ ~call.archive.is_file) =>
        /\ call.out.error = "FileNotFoundError"
        /\ call.out.calls = <<>>
        /\ call.out.checked = <<>>
        /\ call.out.requests = <<>>
        /\ ~call.out.output.dir_made
        /\ call.out.output.written = {}

C16_Witness ==
    /\ call.fn = "read_zipped_file"
    /\ call.pc = "done"
    /\ ~call.archive.is_file
    /\ call.out.error = "FileNotFoundError"

-----------------------------------------------------------------------------
(* server.py: uploads as files, and a spelling service that may fail.      *)

MaxFiles == 2       \* files of one upload request

\* an uploaded file: its name and what its bytes are, a presentation
\* ("pptx"), a zip archive of entries ("zip") or neither ("junk")
UploadFile(filename, kind, d, entries) ==
    [filename |-> filename, kind |-> kind, deck |-> d, entries |-> entries]

\* the answer of the spelling service to a request: a text, or a failure
\* (the call raises)
Reply(ok, text) == [ok |-> ok, text |-> text]

\* the words of the entries numbered `calls`, in that order (words.extend)
RECURSIVE extend_words(_, _)
extend_words(entries, calls) ==
    IF calls = <<>> THEN <<>>
    ELSE get_words_form_file(entries[Head(calls)].deck)
             \o extend_words(entries, Tail(calls))

\* extract_words_from_zip(zip_bytes): 400 for bytes ZipFile rejects, the
\* words of the .pptx entries otherwise
extract_words_from_zip(upload) ==
    IF upload.kind = "junk" THEN [error |-> 400, words |-> <<>>]
    ELSE IF upload.kind = "pptx" THEN [error |-> 0, words |-> <<>>]
    ELSE [error |-> 0,
          words |-> extend_words(upload.entries,
                        walk_archive(upload.entries, 1,
                                     [calls |-> <<>>, words |-> {}]).calls)]

\* extract_words_from_upload(upload): by the lower-cased suffix of the file
\* name; Presentation(file) raises for bytes that are no presentation
extract_words_from_upload(upload) ==
    IF LowerText(path_suffix(upload.filename)) = PPTX_SUFFIX
    THEN IF upload.kind = "pptx"
         THEN [error |-> 0, words |-> get_words_form_file(upload.deck)]
         ELSE [error |-> 500, words |-> <<>>]
    ELSE IF LowerText(path_suffix(upload.filename)) = <<46, 122, 105, 112>>
    THEN extract_words_from_zip(upload)
    ELSE [error |-> 400, words |-> <<>>]

\* the loop of process_uploads over the uploads: the first failing file
\* ends the request
RECURSIVE extract_uploads(_)
extract_uploads(uploads) ==
    IF uploads = <<>> THEN [error |-> 0, words |-> <<>>]
    ELSE LET h == extract_words_from_upload(Head(uploads))
             t == extract_uploads(Tail(uploads))
         IN  IF h.error # 0 THEN h
             ELSE IF t.error # 0 THEN t
             ELSE [error |-> 0, words |-> h.words \o t.words]

\* POST /upload for one file after the other, each processed on its own
RECURSIVE upload_ui_file_by_file(_, _, _, _)
upload_ui_file_by_file(tbl, uploads, reply, now) ==
    IF uploads = <<>> THEN [error |-> 0, words |-> tbl]
    ELSE LET x == extract_words_from_upload(Head(uploads))
         IN  IF x.error # 0 THEN [error |-> x.error, words |-> tbl]
             ELSE IF upload_batch(x.words) # <<>> /\ ~reply.ok
             THEN [error |-> 500, words |-> tbl]
             ELSE upload_ui_file_by_file(
                      process_uploads(tbl, x.words, reply.text, now).words,
                      Tail(uploads), reply, now)

\* POST /upload: process_uploads(conn, files), the spelling service giving
\* `reply`; an exception of extraction or of the service ends the request
\* before insert_words
upload_ui(tbl, uploads, reply, now) ==
    LET x == extract_uploads(uploads)
    IN  IF uploads = <<>> THEN [error |-> 400, words |-> tbl]
        ELSE IF x.error # 0 THEN [error |-> x.error, words |-> tbl]
        ELSE IF upload_batch(x.words) # <<>> /\ ~reply.ok
        THEN [error |-> 500, words |-> tbl]
        ELSE [error |-> 0,
              words |-> process_uploads(tbl, x.words, reply.text, now).words]

\* POST /words/edit, the spelling service giving `reply`: an exception of
\* check_spelling ends the request before update_word
edit_word_request(tbl, word_id, word, reply) ==
    IF clean_word(word) # <<>> /\ ~reply.ok
    THEN [outcome |-> "error", words |-> tbl]
    ELSE edit_word(tbl, word_id, word, reply.text)

\* uploaded files: "a.pptx" holding the word "a"; "z.zip" holding "b.PPTX"
\* with the words "a", "b" and "n.txt"; "z.zip" and "a.pptx" with bytes that
\* are neither; "n.txt"
FilePool ==
    { UploadFile(<<97, 46, 112, 112, 116, 120>>, "pptx",
                 << <<Shape(<<97, 10>>, TRUE)>> >>, <<>>),
      UploadFile(<<122, 46, 122, 105, 112>>, "zip", <<>>,
                 << Entry(<<98, 46, 80, 80, 84, 88>>,
                          << <<Shape(<<97, 10>>, TRUE), Shape(<<98>>, TRUE)>> >>),
                    Entry(<<110, 46, 116, 120, 116>>, <<>>) >>),
      UploadFile(<<122, 46, 122, 105, 112>>, "junk", <<>>, <<>>),
      UploadFile(<<97, 46, 112, 112, 116, 120>>, "junk", <<>>, <<>>),
      UploadFile(<<110, 46, 116, 120, 116>>, "junk", <<>>, <<>>) }

\* the replies of the service to a batch: the batch itself, "a b", or a
\* failure
Replies(batch) == {Reply(TRUE, batch), Reply(TRUE, <<97, 32, 98>>), Reply(FALSE, <<>>)}

InitFiles ==
    /\ ExtractorIdle
    /\ AccountsIdle
    /\ StoreIdle

\* POST /upload with one or more files
UploadFiles ==
    /\ \E uploads \in SeqsUpTo(FilePool, MaxFiles) \ {<<>>} :
       \E reply \in Replies(upload_batch(extract_uploads(uploads).words)) :
       \E r \in {upload_ui(words, uploads, reply, clock)} :
          /\ words' = r.words
          /\ last' = [op |-> "upload_files", uploads |-> uploads, reply |-> reply,
                      failed |-> r.error # 0, words_before |-> words]
    /\ UNCHANGED <<audit, client, users, sessions, seq, handles, call, deck, xpc, result, usage,
                   clock, prev, sel>>

\* POST /words/edit
EditWordRequest ==
    /\ \E word_id \in 1..(MaxWords + 1) :
       \E word \in {<<97>>, <<100>>, <<49>>} :
       \E reply \in Replies(clean_word(word)) :
       \E r \in {edit_word_request(words, word_id, word, reply)} :
          /\ words' = r.words
          /\ last' = [op |-> "edit_request", word_id |-> word_id, word |-> word,
                      reply |-> reply, failed |-> r.outcome # "updated",
                      words_before |-> words]
    /\ UNCHANGED <<audit, client, users, sessions, seq, handles, call, deck, xpc, result, usage,
                   clock, prev, sel>>

NextFiles == UploadFiles \/ EditWordRequest

SpecFiles == InitFiles /\ [][NextFiles]_vars

-----------------------------------------------------------------------------
(* C18.                                                                    *)

\* a file of the upload is no zip archive, no presentation or of a type
\* that is not supported
HasBadFile(l) == \E i \in DOMAIN l.uploads : l.uploads[i].kind = "junk"

\* C18: an upload with a malformed zip, a malformed presentation or an
\* unsupported file among its files, or whose spelling call fails, and an
\* edit whose spelling call fails or that is refused, leave the words table
\* exactly as it was
C18_FailedRequestNoChange ==
    /\ (last.op = "upload_files" /\ HasBadFile(last)) => last.failed
    /\ (last.op = "upload_files" /\ (last.failed \/ ~last.reply.ok))
           => words = last.words_before
    /\ (last.op = "edit_request" /\ (last.failed \/ ~last.reply.ok))
           => words = last.words_before

\* an upload fails on its second file after a first file with the words
\* "a" and "b", the table not holding "b"
C18_Witness ==
    /\ last.op = "upload_files"
    /\ last.failed
    /\ last.reply.ok
    /\ Len(last.uploads) = 2
    /\ last.uploads[1].kind = "zip"
    /\ last.uploads[2].kind = "junk"
    /\ words # {}
    /\ ~\E r \in last.words_before : r.word = <<98>>

-----------------------------------------------------------------------------
(* server.py: the store handles of requests in flight.                     *)

MaxHandles == 3     \* connections open at a time

\* routes: one whose handler takes its connection from get_db only, and the
\* index page, whose handler opens a second connection itself
Routes == {"words_page", "index"}

\* a connection: who opened it ("get_db" or "open_connection" in a handler
\* body) and the request that can still reach it (0: none)
Handle(id, via, owner) == [id |-> id, via |-> via, owner |-> owner]

\* an identifier no open connection carries
FreshHandle == CHOOSE i \in 1..(MaxHandles + 1) : \A h \in handles : h.id # i

InitHandles ==
    /\ ExtractorIdle
    /\ words = {}
    /\ usage = {}
    /\ clock = 0
    /\ last = NoRequest
    /\ prev = NoRequest
    /\ sel = [w \in Workers |-> IdleCall]
    /\ users = {}
    /\ sessions = {}
    /\ seq = [users |-> 0, sessions |-> 0]
    /\ handles = {}
    /\ audit = NoAudit
    /\ client = NoClient
    /\ call = NoCall

\* a request arrives: the dependency get_db opens the request's connection
BeginRequest(w) ==
    /\ sel[w].pc = "idle"
    /\ Cardinality(handles) < MaxHandles
    /\ \E route \in Routes :
          sel' = [sel EXCEPT ![w] = [pc |-> "handler", route |-> route]]
    /\ handles' = handles \cup {Handle(FreshHandle, "get_db", w)}
    /\ UNCHANGED <<audit, client, users, sessions, seq, call, deck, xpc, result, words, usage,
                   clock, last, prev>>

\* get_current_user_session and the handler body run: the session is
\* refused (303), or the body returns or raises; the body of index opens a
\* connection with open_connection and leaves its `with` block, which
\* commits or rolls back and does not close
RunHandler(w) ==
    /\ sel[w].pc = "handler"
    /\ \E outcome \in {"redirect", "returns", "raises"} :
          /\ sel' = [sel EXCEPT ![w] = [pc |-> "exit", route |-> sel[w].route,
                                        outcome |-> outcome]]
          /\ IF sel[w].route = "index" /\ outcome # "redirect"
             THEN /\ Cardinality(handles) < MaxHandles
                  /\ handles' = handles \cup
                                    {Handle(FreshHandle, "open_connection", w)}
             ELSE handles' = handles
    /\ UNCHANGED <<audit, client, users, sessions, seq, call, deck, xpc, result, words, usage,
                   clock, last, prev>>

\* the request ends: the finally clause of get_db closes its connection;
\* a connection the handler body opened is closed nowhere, it becomes
\* unreachable and is finalized then or later, as the interpreter decides
EndRequest(w) ==
    /\ sel[w].pc = "exit"
    /\ sel' = [sel EXCEPT ![w] = IdleCall]
    /\ \E finalized \in BOOLEAN :
          handles' =
              {Handle(h.id, h.via, 0) :
                  h \in {x \in handles : /\ x.owner = w
                                         /\ x.via = "open_connection"
                                         /\ ~finalized}}
              \cup {h \in handles : h.owner # w}
    /\ UNCHANGED <<audit, client, users, sessions, seq, call, deck, xpc, result, words, usage,
                   clock, last, prev>>

\* the garbage collector finalizes an unreachable connection
Finalize ==
    /\ \E h \in handles :
          /\ h.owner = 0
          /\ handles' = handles \ {h}
    /\ UNCHANGED <<audit, client, users, sessions, seq, call, deck, xpc, result, words, usage,
                   clock, last, prev, sel>>

NextHandles ==
    \/ \E w \in Workers : BeginRequest(w) \/ RunHandler(w) \/ EndRequest(w)
    \/ Finalize

SpecHandles == InitHandles /\ [][NextHandles]_vars

-----------------------------------------------------------------------------
(* C19.                                                                    *)

\* C19 (as claimed): with no request in flight no connection is open
C19_NoHandleOpenWhenIdle ==
    (\A w \in Workers : sel[w].pc = "idle") => handles = {}

-----------------------------------------------------------------------------
(***************************************************************************)
(* Admin requests served concurrently.  The handlers are synchronous       *)
(* functions, which the server runs on a thread pool; each statement a     *)
(* handler sends to the store is committed on its own, and no transaction  *)
(* spans a handler's checks and its write.  A request in flight is         *)
(* sel[w]: its form fields, the position of its handler, and what the      *)
(* handler has read so far.                                                *)
(***************************************************************************)
SECOND_ADMIN == <<98>>

ConcNames == {DEFAULT_USER, SECOND_ADMIN}

\* two admin accounts, each with a live session: the state after the
\* bootstrapped admin created a second admin and both logged in
InitAdminConc ==
    /\ ExtractorIdle
    /\ words = {}
    /\ usage = {}
    /\ clock = 0
    /\ last = NoRequest
    /\ prev = NoRequest
    /\ sel = [w \in Workers |-> IdleCall]
    /\ users = {UserRow(1, DEFAULT_USER, hash_password(DEFAULT_PASSWORD), TRUE),
                UserRow(2, SECOND_ADMIN, hash_password(DEFAULT_PASSWORD), TRUE)}
    /\ sessions = {SessionRow(1, 1, SESSION_TTL_SECONDS),
                   SessionRow(2, 2, SESSION_TTL_SECONDS)}
    /\ seq = [users |-> 2, sessions |-> 2]
    /\ handles = {}
    /\ call = NoCall
    /\ audit = NoAudit
    /\ client = NoClient

\* the handler of worker w returns: the response is recorded
Respond(w, code) ==
    /\ sel' = [sel EXCEPT ![w] = IdleCall]
    /\ last' = [op |-> sel[w].op, worker |-> w, code |-> code]
    /\ UNCHANGED prev

\* the handler of worker w goes on to its next statement
Goto(w, pc) ==
    /\ sel' = [sel EXCEPT ![w].pc = pc]
    /\ UNCHANGED <<last, prev>>

\* POST /admin/users/role or POST /admin/users/delete arrives at a free worker
Arrive(w) ==
    /\ sel[w] = IdleCall
    /\ \E op \in {"admin_update_role", "admin_delete_user"}, token \in 1..2,
          username \in ConcNames, is_admin \in BOOLEAN :
          /\ op = "admin_delete_user" => ~is_admin
          /\ sel' = [sel EXCEPT ![w] =
                 [pc |-> "require_admin", op |-> op, token |-> token,
                  username |-> username, is_admin |-> is_admin,
                  user |-> {}, target |-> {}]]
    /\ UNCHANGED <<audit, client, users, sessions, seq, handles, call, deck, xpc,
                   result, words, usage, clock, last, prev>>

\* the dependency require_admin reads the session's account; the handler
\* body then runs its checks on the form alone (empty name, own name)
Authorize(w) ==
    /\ sel[w].pc = "require_admin"
    /\ LET auth == require_admin(Db, sel[w].token, clock)
           clean_username == Strip(sel[w].username)
       IN  IF auth.code # 200 THEN Respond(w, auth.code)
           ELSE IF clean_username = <<>> THEN Respond(w, 400)
           ELSE IF sel[w].op = "admin_delete_user"
                   /\ clean_username = auth.user.username
           THEN Respond(w, 400)
           ELSE /\ sel' = [sel EXCEPT ![w].pc = "get_user_by_username",
                                      ![w].user = {auth.user}]
                /\ UNCHANGED <<last, prev>>
    /\ UNCHANGED <<audit, client, users, sessions, seq, handles, call, deck, xpc,
                   result, words, usage, clock>>

\* target = get_user_by_username(conn, clean_username), and the checks on
\* the row read
LookupTarget(w) ==
    /\ sel[w].pc = "get_user_by_username"
    /\ LET clean_username == Strip(sel[w].username)
           target == get_user_by_username(Db, clean_username)
           user == CHOOSE u \in sel[w].user : TRUE
       IN  IF target = {} THEN Respond(w, 404)
           ELSE IF sel[w].op = "admin_update_role" /\ ~sel[w].is_admin
                   /\ clean_username = user.username
           THEN Respond(w, 400)
           ELSE IF ~sel[w].is_admin /\ (CHOOSE u \in target : TRUE).is_admin
           THEN /\ sel' = [sel EXCEPT ![w].pc = "count_admins",
                                      ![w].target = target]
                /\ UNCHANGED <<last, prev>>
           ELSE /\ sel' = [sel EXCEPT ![w].pc = "write", ![w].target = target]
                /\ UNCHANGED <<last, prev>>
    /\ UNCHANGED <<audit, client, users, sessions, seq, handles, call, deck, xpc,
                   result, words, usage, clock>>

\* count_admins(conn) <= 1, evaluated when the target row read is an admin
CountAdmins(w) ==
    /\ sel[w].pc = "count_admins"
    /\ IF count_admins(Db) <= 1 THEN Respond(w, 400) ELSE Goto(w, "write")
    /\ UNCHANGED <<audit, client, users, sessions, seq, handles, call, deck, xpc,
                   result, words, usage, clock>>

\* update_user_admin(conn, clean_username, target_is_admin) or
\* delete_user(conn, clean_username), then the redirect to /admin
WriteChange(w) ==
    /\ sel[w].pc = "write"
    /\ LET clean_username == Strip(sel[w].username)
           db == IF sel[w].op = "admin_update_role"
                 THEN update_user_admin(Db, clean_username, sel[w].is_admin)
                 ELSE delete_user(Db, clean_username)
       IN  /\ users' = db.users
           /\ sessions' = db.sessions
           /\ usage' = db.usage
    /\ Respond(w, 303)
    /\ UNCHANGED <<audit, client, seq, handles, call, deck, xpc, result, words,
                   clock>>

NextAdminConc ==
    \E w \in Workers :
        \/ Arrive(w)
        \/ Authorize(w)
        \/ LookupTarget(w)
        \/ CountAdmins(w)
        \/ WriteChange(w)

SpecAdminConc == InitAdminConc /\ [][NextAdminConc]_vars

\* C21: under every interleaving of concurrently served admin requests,
\* whose checks and write are separate store steps, at least one admin
\* account remains
C21_AdminRemainsInterleaved == count_admins(Db) >= 1

-----------------------------------------------------------------------------
(***************************************************************************)
(* Sessions and the login pages.  A browser keeps one cookie and follows   *)
(* the redirects the server answers; time passes between requests, an      *)
(* administrator may delete an account, and a cookie value held elsewhere  *)
(* (a copy, or a value the server never issued) may be put back into the   *)
(* browser.  `audit` remembers what login issued and what logout was       *)
(* called with.                                                            *)
(***************************************************************************)
\* DELETE FROM sessions WHERE token = ?
delete_session(db, token) ==
    [db EXCEPT !.sessions = {s \in @ : s.token # token}]

\* GET /login: any cookie at all is redirected to /, the form otherwise
login_page(token) ==
    IF token # NoCookie THEN [code |-> 303, location |-> "/"]
    ELSE [code |-> 200, location |-> "login form"]

\* GET /: the page for an authenticated session, else the redirect of
\* get_current_user_session
index(db, token, now) ==
    LET auth == get_current_user_session(db, token, now)
    IN  IF auth.code # 200 THEN [code |-> auth.code, location |-> auth.location]
        ELSE [code |-> 200, location |-> "index page"]

\* GET /logout: the session row of the cookie is deleted, the response
\* redirects to /login and deletes the cookie
logout(db, token) ==
    Response(303, "/login", IF token # NoCookie THEN delete_session(db, token) ELSE db)

\* a cookie value the server never issued
ForgedToken == 0 - 1

MEMBER == <<98>>

SessionNames == {DEFAULT_USER, MEMBER}

\* the instants at which requests are made: around the issue time and
\* around issue time plus SESSION_TTL_SECONDS
TimePoints == {0, 1, SESSION_TTL_SECONDS - 1, SESSION_TTL_SECONDS,
               SESSION_TTL_SECONDS + 1}

AtRest == client.at \in {"login form", "index page"}

\* the bootstrapped admin and one member account it created; the browser
\* is about to open /
InitSession ==
    /\ ExtractorIdle
    /\ words = {}
    /\ usage = {}
    /\ clock = 0
    /\ last = NoRequest
    /\ prev = NoRequest
    /\ sel = <<>>
    /\ users = {UserRow(1, DEFAULT_USER, hash_password(DEFAULT_PASSWORD), TRUE),
                UserRow(2, MEMBER, hash_password(DEFAULT_PASSWORD), FALSE)}
    /\ sessions = {}
    /\ seq = [users |-> 2, sessions |-> 0]
    /\ handles = {}
    /\ call = NoCall
    /\ audit = NoAudit
    /\ client = [cookie |-> NoCookie, at |-> "/"]

\* a request has been answered
Answered(op, token, r) ==
    last' = [op |-> op, token |-> token, code |-> r.code,
             location |-> r.location, now |-> clock, before |-> Db]

\* the user types / or /login into the address bar
Visit ==
    /\ AtRest
    /\ \E url \in {"/", "/login"} : client' = [client EXCEPT !.at = url]
    /\ UNCHANGED <<audit, users, sessions, seq, handles, call, deck, xpc, result,
                   words, usage, clock, last, prev, sel>>

\* the browser requests /
GetIndex ==
    /\ client.at = "/"
    /\ \E r \in {index(Db, client.cookie, clock)} :
          /\ client' = [client EXCEPT !.at = r.location]
          /\ Answered("index", client.cookie, r)
    /\ UNCHANGED <<audit, users, sessions, seq, handles, call, deck, xpc, result,
                   words, usage, clock, prev, sel>>

\* the browser requests /login
GetLoginPage ==
    /\ client.at = "/login"
    /\ \E r \in {login_page(client.cookie)} :
          /\ client' = [client EXCEPT !.at = r.location]
          /\ Answered("login_page", client.cookie, r)
    /\ UNCHANGED <<audit, users, sessions, seq, handles, call, deck, xpc, result,
                   words, usage, clock, prev, sel>>

\* the login form is submitted: 401 shows the form again, a success sets
\* the cookie to the new token and redirects to /
PostLogin ==
    /\ client.at = "login form"
    /\ \E username \in SessionNames, password \in PasswordPool :
       \E r \in {login(Db, username, password, clock)} :
          /\ r.db.seq.sessions <= MaxTokens
          /\ sessions' = r.db.sessions
          /\ seq' = r.db.seq
          /\ Answered("login", client.cookie, r)
          /\ IF r.code = 303
             THEN /\ client' = [cookie |-> r.db.seq.sessions, at |-> r.location]
                  /\ audit' = [audit EXCEPT !.issued = @ \cup
                        {[token |-> r.db.seq.sessions, at |-> clock,
                          user_id |-> (CHOOSE s \in r.db.sessions :
                                          s.token = r.db.seq.sessions).user_id]}]
             ELSE UNCHANGED <<client, audit>>
    /\ UNCHANGED <<users, handles, call, deck, xpc, result, words, usage, clock,
                   prev, sel>>

\* the browser requests /logout
GetLogout ==
    /\ AtRest
    /\ \E r \in {logout(Db, client.cookie)} :
          /\ sessions' = r.db.sessions
          /\ client' = [cookie |-> NoCookie, at |-> r.location]
          /\ Answered("logout", client.cookie, r)
    /\ audit' = [audit EXCEPT !.logged_out =
                    @ \cup ({client.cookie} \ {NoCookie})]
    /\ UNCHANGED <<users, seq, handles, call, deck, xpc, result, words, usage,
                   clock, prev, sel>>

\* a cookie value kept elsewhere is presented again: a token issued
\* earlier, or a value that was never issued
RestoreCookie ==
    /\ AtRest
    /\ \E token \in (1..seq.sessions) \cup {ForgedToken} :
          /\ token # client.cookie
          /\ client' = [cookie |-> token, at |-> "/"]
    /\ UNCHANGED <<audit, users, sessions, seq, handles, call, deck, xpc, result,
                   words, usage, clock, last, prev, sel>>

\* POST /admin/users/delete, sent with any token issued so far
DeleteAccount ==
    /\ \E token \in 1..seq.sessions, username \in SessionNames :
       \E r \in {admin_delete_user(Db, token, username, clock)} :
          /\ users' = r.db.users
          /\ sessions' = r.db.sessions
          /\ usage' = r.db.usage
          /\ Answered("admin_delete_user", token, r)
    /\ UNCHANGED <<audit, client, seq, handles, call, deck, xpc, result, words,
                   clock, prev, sel>>

\* time passes
Advance ==
    /\ \E t \in TimePoints : t > clock /\ clock' = t
    /\ UNCHANGED <<audit, client, users, sessions, seq, handles, call, deck, xpc,
                   result, words, usage, last, prev, sel>>

NextSession ==
    \/ Visit
    \/ GetIndex
    \/ GetLoginPage
    \/ PostLogin
    \/ GetLogout
    \/ RestoreCookie
    \/ DeleteAccount
    \/ Advance

SpecSession == InitSession /\ [][NextSession]_vars

\* the browser goes on to request the URL it was redirected to
SpecSessionFair ==
    SpecSession /\ WF_vars(GetIndex) /\ WF_vars(GetLoginPage)

\* the browser's cookie does not authenticate: expired, logged out, never
\* issued, or of a deleted account
StaleCookie ==
    /\ client.cookie # NoCookie
    /\ get_user_by_session(Db, client.cookie, clock) = {}

\* C22: a browser that presents a cookie which no longer authenticates and
\* follows the redirects from / or /login eventually receives the login form
C22_StaleCookieReachesLoginForm ==
    (StaleCookie /\ client.at \in {"/", "/login"}) ~> (client.at = "login form")

\* the session-authenticated requests, and whether the last one was
\* authenticated (anything but the redirect to /login)
SessionOps == {"index", "admin_delete_user"}

Authenticated(l) ==
    /\ l.op \in SessionOps
    /\ ~(l.code = 303 /\ l.location = "/login")

\* C23: a token authenticates a request only if a successful login issued
\* it, the time of the request is strictly before issue time plus 24 hours,
\* logout was never called with it, and its account still exists
C23_TokenAuthenticatesOnlyIfLive ==
    Authenticated(last) =>
        /\ \E i \in audit.issued :
              /\ i.token = last.token
              /\ last.now < i.at + 60 * 60 * 24
              /\ \E u \in last.before.users : u.id = i.user_id
        /\ last.token \notin audit.logged_out

\* a token authenticates in the last second of its life while another
\* token, logged out earlier, exists
C23_Witness ==
    /\ Authenticated(last)
    /\ last.op = "index"
    /\ \E i \in audit.issued :
          i.token = last.token /\ last.now = i.at + SESSION_TTL_SECONDS - 1
    /\ audit.logged_out # {}

====
